---- MODULE Spec2Model ----
(***************************************************************************)
(* A model of shami-rs: a node of a Shamir secret-sharing MPC protocol.    *)
(*                                                                         *)
(*   - the Mersenne field (math/mersenne61.rs), Lagrange interpolation     *)
(*     (math/lagrange.rs) and the share algebra (mpc/share.rs) are pure    *)
(*     operators, computed the way the code computes them;                 *)
(*   - the transport (net/channel.rs, net/mod.rs) is a state machine over  *)
(*     byte streams in flight, listeners and loop-back queues;             *)
(*   - the multiplication protocol (mpc/mod.rs) and the session driver     *)
(*     (main.rs) are per-party sequential programs, one action per         *)
(*     blocking call.                                                      *)
(*                                                                         *)
(* The field is scaled: the code's prime is 2^61 - 1, the model's is       *)
(* 2^BIT_SIZE - 1 with BIT_SIZE = 5, another Mersenne prime, so that TLC's *)
(* 32-bit integers hold every intermediate product.  The u64 of the code   *)
(* keeps its three bits of headroom over the field (64 = 61 + 3).          *)
(***************************************************************************)
EXTENDS Integers, Sequences, FiniteSets, TLC

(***************************************************************************)
(* Bounds of the model.                                                    *)
(***************************************************************************)
\* Largest number of parties (entries of peer_ips) a run draws.
MaxParties == 3
\* Largest corruption threshold a run draws.
MaxThreshold == 1
\* Random coefficients are drawn from 0..MaxCoef.
MaxCoef == 1
\* The values multiplied are drawn from 0..MaxSecret and MODULUS-MaxSecret..MODULUS-1.
MaxSecret == 1
\* compute_shamir_share on its own: parties, threshold, coefficients.
MaxShareParties == 4
MaxShareThreshold == 2
MaxShareCoef == 3
\* Largest degree of a share the share operations are applied to.
MaxDegree == 2
\* Interpolation on its own: the nodes are drawn from 0..MaxNode and p-1.
MaxNode == 3
\* Largest number of words of a small payload of the channel harness.
MaxPayloadLen == 2
\* Largest number of send calls of one run of the channel harness.
MaxSends == 2
\* Largest number of successful recv calls on one channel of the harness.
MaxRecvs == 2
\* The timeout and the sleep_time of the configuration file, in ticks.
ConfigTimeout == 2
ConfigSleepTime == 1

(***************************************************************************)
(* math/mersenne61.rs: the field.                                          *)
(***************************************************************************)
BIT_SIZE == 5
MODULUS == 2^BIT_SIZE - 1
\* Width of the code's u64 (ValueType), scaled with the field.
WORD_BITS == BIT_SIZE + 3
ZERO == 0
ONE == 1

Field == 0..(MODULUS - 1)

\* u64 and u128 wrap-around.
WrapU64(v) == v % (2^WORD_BITS)
WrapU128(v) == v % (2^(2 * WORD_BITS))

RECURSIVE BitOr(_, _)
BitOr(a, b) ==
    IF a = 0 THEN b
    ELSE IF b = 0 THEN a
    ELSE (IF (a % 2 = 1) \/ (b % 2 = 1) THEN 1 ELSE 0)
         + 2 * BitOr(a \div 2, b \div 2)

RECURSIVE BitAnd(_, _)
BitAnd(a, b) ==
    IF a = 0 \/ b = 0 THEN 0
    ELSE (IF (a % 2 = 1) /\ (b % 2 = 1) THEN 1 ELSE 0)
         + 2 * BitAnd(a \div 2, b \div 2)

\* impl From<u64> for Mersenne61: repeated subtraction.
RECURSIVE From(_)
From(value) == IF value >= MODULUS THEN From(value - MODULUS) ELSE value

\* An addition that leaves its sum unreduced.
add_unreduced(a, b) == WrapU64(a + b)

add(a, b) == From(WrapU64(a + b))

multiply(a, b) ==
    LET non_reduced_mult == WrapU128(a * b)
        msb0 == WrapU64(non_reduced_mult \div (2^BIT_SIZE))
        lsb0 == WrapU64(non_reduced_mult)
        most_sig_bits == BitOr(msb0, lsb0 \div (2^BIT_SIZE))
        least_sig_bits == BitAnd(lsb0, MODULUS)
    IN  add(From(most_sig_bits), From(least_sig_bits))

equal(a, b) == a = b

\* fn assign(v1, v2, q): v1 <- v2, v2 <- v1 - q * v2; a pair <<v1, v2>>.
assign(v1, v2, q) == <<v2, v1 - q * v2>>

RECURSIVE InverseLoop(_, _, _, _)
InverseLoop(k, new_k, r, new_r) ==
    IF new_r # 0
    THEN LET q == r \div new_r
             ks == assign(k, new_k, q)
             rs == assign(r, new_r, q)
         IN  InverseLoop(ks[1], ks[2], rs[1], rs[2])
    ELSE k

\* An inverse that takes the absolute value of a negative coefficient.
inverse_abs(a) ==
    IF equal(a, ZERO)
    THEN [ok |-> FALSE, val |-> 0, err |-> "ZeroInverse"]
    ELSE LET k == InverseLoop(0, 1, MODULUS, a)
         IN  [ok |-> TRUE, val |-> From(IF k < 0 THEN 0 - k ELSE k), err |-> ""]

\* Result<Self, FieldError>: ok = FALSE is Err(err).
inverse(a) ==
    IF equal(a, ZERO)
    THEN [ok |-> FALSE, val |-> 0, err |-> "ZeroInverse"]
    ELSE LET k == InverseLoop(0, 1, MODULUS, a)
             k2 == IF k < 0 THEN k + MODULUS ELSE k
         IN  [ok |-> TRUE, val |-> From(k2), err |-> ""]

\* Result::unwrap on an Ok value (an Err panics; see compute_lagrange_basis).
unwrap(res) == res.val

negate(a) == IF ~equal(a, ZERO) THEN From(MODULUS - a) ELSE ZERO

subtract(a, b) ==
    IF b > a THEN From(WrapU64(a + MODULUS - b)) ELSE From(a - b)

(***************************************************************************)
(* math/mod.rs (not in the source tree): Polynomial, as the spec has it.   *)
(* A polynomial is its coefficient sequence c0, c1, .., cd; index 1 of the *)
(* TLA+ sequence is the code's index 0.                                    *)
(***************************************************************************)
RandomCoeffs == 0..MaxCoef

\* Polynomial::random(degree, rng): every outcome of the draw, with the
\* coefficients a session draws and with those of a given set.
PolynomialRandomIn(degree, coeffs) == [1..(degree + 1) -> coeffs]
PolynomialRandom(degree) == PolynomialRandomIn(degree, RandomCoeffs)

\* Polynomial::evaluate(x), by Horner's rule.
RECURSIVE Horner(_, _, _)
Horner(poly, x, i) ==
    IF i > Len(poly) THEN ZERO
    ELSE add(poly[i], multiply(x, Horner(poly, x, i + 1)))

evaluate(poly, x) == Horner(poly, x, 1)

(***************************************************************************)
(* math/lagrange.rs                                                        *)
(***************************************************************************)
RECURSIVE BasisProduct(_, _, _, _, _)
BasisProduct(nodes, x, j, m, basis) ==
    IF m > Len(nodes) THEN basis
    ELSE IF m # j
    THEN LET numerator == subtract(x, nodes[m])
             denominator == subtract(nodes[j], nodes[m])
             term == multiply(numerator, unwrap(inverse(denominator)))
         IN  BasisProduct(nodes, x, j, m + 1, multiply(basis, term))
    ELSE BasisProduct(nodes, x, j, m + 1, basis)

compute_lagrange_basis(nodes, x) ==
    [j \in 1..Len(nodes) |-> BasisProduct(nodes, x, j, 1, ONE)]

RECURSIVE InterpolationSum(_, _, _, _)
InterpolationSum(evaluations, lagrange_basis, i, interpolation) ==
    IF i > Len(evaluations) THEN interpolation
    ELSE InterpolationSum(evaluations, lagrange_basis, i + 1,
             add(interpolation, multiply(evaluations[i], lagrange_basis[i])))

\* An interpolation whose sum starts at ONE.
interpolate_from_one(evaluations, alphas, x) ==
    InterpolationSum(evaluations, compute_lagrange_basis(alphas, x), 1, ONE)

interpolate_polynomial_at(evaluations, alphas, x) ==
    InterpolationSum(evaluations, compute_lagrange_basis(alphas, x), 1, ZERO)

(***************************************************************************)
(* mpc/share.rs                                                            *)
(***************************************************************************)
Max(a, b) == IF a >= b THEN a ELSE b

ShamirShare(value, degree) == [degree |-> degree, value |-> value]

\* A product that takes the larger degree of its arguments.
share_multiply_max(s, other) ==
    [value |-> multiply(s.value, other.value), degree |-> Max(s.degree, other.degree)]

share_multiply(s, other) ==
    [value |-> multiply(s.value, other.value), degree |-> s.degree + other.degree]

share_multiply_const(s, c) ==
    [value |-> multiply(s.value, c), degree |-> s.degree]

share_add_const(s, c) == [value |-> add(s.value, c), degree |-> s.degree]

share_subtract_const(s, c) ==
    [value |-> subtract(s.value, negate(c)), degree |-> s.degree]

share_add(s, other) ==
    [value |-> add(s.value, other.value), degree |-> Max(s.degree, other.degree)]

share_negate(s) == [value |-> negate(s.value), degree |-> s.degree]

share_subtract(s, other) == share_add(s, share_negate(other))

(***************************************************************************)
(* mpc/mod.rs: sharing and reconstruction.                                 *)
(***************************************************************************)
\* Evaluation points that start at 2.
AlphasShifted(n) == [idx \in 1..n |-> From(idx + 1)]

\* The evaluation points T::from(idx as u64), idx = 1..n.
Alphas(n) == [idx \in 1..n |-> From(idx)]

\* A sharing whose polynomial has lost its leading random coefficient.
compute_shamir_share_low(secret, n_parties, threshold, random_poly) ==
    LET rand_poly == [i \in 1..Len(random_poly) |->
                         IF i = 1 THEN secret
                         ELSE IF i = Len(random_poly) THEN ZERO
                         ELSE random_poly[i]]
    IN  [idx \in 1..n_parties |->
            ShamirShare(evaluate(rand_poly, From(idx)), threshold)]

\* compute_shamir_share with the random polynomial the rng produced.
compute_shamir_share(secret, n_parties, threshold, random_poly) ==
    LET rand_poly == [random_poly EXCEPT ![1] = secret]
    IN  [idx \in 1..n_parties |->
            ShamirShare(evaluate(rand_poly, From(idx)), threshold)]

reconstruct_secret(shares) ==
    interpolate_polynomial_at([i \in 1..Len(shares) |-> shares[i].value],
                              Alphas(Len(shares)), ZERO)

\* The recombination at the end of run_multiply_protocol (lines 90-98).
RECURSIVE RecombineFrom(_, _, _, _)
RecombineFrom(basis, h_shares, i, mult_share) ==
    IF i > Len(basis) \/ i > Len(h_shares) THEN mult_share
    ELSE RecombineFrom(basis, h_shares, i + 1,
             share_add(mult_share, share_multiply_const(h_shares[i], basis[i])))

\* A recombination that adds the shares up without the basis.
RecombineUnweighted(h_shares, n_parties) ==
    RecombineFrom([j \in 1..n_parties |-> ONE], h_shares, 2, h_shares[1])

Recombine(h_shares, n_parties) ==
    LET basis == compute_lagrange_basis(Alphas(n_parties), ZERO)
    IN  RecombineFrom(basis, h_shares, 2,
                      share_multiply_const(h_shares[1], basis[1]))

(***************************************************************************)
(* State.                                                                  *)
(***************************************************************************)
VARIABLES
    n_parties,   \* net_config.peer_ips.len()
    threshold,   \* args.corruptions
    conns,       \* the TCP connections made so far, with the writes in flight
    arrival,     \* how written data reaches a reader: see TcpChannelRecv
    peers,       \* peers[i]: party i's Network.peer_channels (slot j at j+1)
    listener,    \* listener[i]: party i's TcpListener and its accept queue
    absent,      \* the parties that never start
    pc,          \* pc[i]: where party i's main is
    inputs,      \* inputs[i]: party i's args.input
    local,       \* local[i]: the local variables of party i's main
    chlog,       \* channel harness: history of the calls made and their results
    calc         \* pure-function harness: arguments and results

vars == <<n_parties, threshold, conns, arrival, peers, listener, absent, pc, inputs, local,
          chlog, calc>>

Parties == 0..(n_parties - 1)

(***************************************************************************)
(* net/mod.rs: Packet.  A packet is a sequence of 8-byte words (the unit   *)
(* bincode writes a usize or a u64 in); streams carry words.               *)
(***************************************************************************)
MAX_BUFFER_SIZE == 1024
WORD_BYTES == 8
MAX_BUFFER_WORDS == MAX_BUFFER_SIZE \div WORD_BYTES

Min(a, b) == IF a <= b THEN a ELSE b

(***************************************************************************)
(* net/channel.rs: the two channel variants.                               *)
(*                                                                         *)
(* A connection is [client, server, up, down, client_open, server_open]:   *)
(* the party that dialed, the party that accepted, the writes of the       *)
(* client not yet read by the server (up, a sequence of word sequences),   *)
(* the reverse (down), and whether each end still holds its socket open.   *)
(* A channel is                                                            *)
(* [kind, stream, buffer]: stream = 0 is the code's None, otherwise the    *)
(* index of the connection in conns; buffer is the loop-back queue.        *)
(***************************************************************************)
TcpChannel(stream) == [kind |-> "tcp", stream |-> stream, buffer |-> <<>>]
LoopBackChannel == [kind |-> "loop", stream |-> 0, buffer |-> <<>>]

IsClient(cs, c, i) == cs[c].client = i
Incoming(cs, c, i) == IF IsClient(cs, c, i) THEN cs[c].down ELSE cs[c].up
RemoteOpen(cs, c, i) ==
    IF IsClient(cs, c, i) THEN cs[c].server_open ELSE cs[c].client_open
\* The words of a sequence of writes, and the writes left when the first k
\* words are taken.
RECURSIVE Flatten(_)
Flatten(writes) ==
    IF Len(writes) = 0 THEN <<>> ELSE Head(writes) \o Flatten(Tail(writes))

RECURSIVE DropWords(_, _)
DropWords(writes, k) ==
    IF k = 0 \/ Len(writes) = 0 THEN writes
    ELSE IF k >= Len(Head(writes))
    THEN DropWords(Tail(writes), k - Len(Head(writes)))
    ELSE <<SubSeq(Head(writes), k + 1, Len(Head(writes)))>> \o Tail(writes)

Written(cs, c, i, words) ==
    IF Len(words) = 0 THEN cs
    ELSE IF IsClient(cs, c, i)
    THEN [cs EXCEPT ![c].up = Append(@, words)]
    ELSE [cs EXCEPT ![c].down = Append(@, words)]
Consumed(cs, c, i, k) ==
    IF IsClient(cs, c, i)
    THEN [cs EXCEPT ![c].down = DropWords(@, k)]
    ELSE [cs EXCEPT ![c].up = DropWords(@, k)]
Shut(cs, c, i) ==
    IF IsClient(cs, c, i)
    THEN [cs EXCEPT ![c].client_open = FALSE]
    ELSE [cs EXCEPT ![c].server_open = FALSE]

\* The result of a channel call: the error ("Ok" for none), the packet a
\* recv returns, the channel and the connections after the call.
Outcome(err, packet, ch, cs) ==
    [err |-> err, packet |-> packet, chan |-> ch, conns |-> cs]

\* TcpChannel::close: shutdown(Both), then stream = None.  shutdown fails
\* (ENOTCONN) only on a socket the peer has already torn down, and the
\* early return leaves the stream in place.
TcpChannelClose(ch, i, cs) ==
    IF ch.stream = 0
    THEN {Outcome("Ok", <<>>, ch, cs)}
    ELSE {Outcome("Ok", <<>>, [ch EXCEPT !.stream = 0], Shut(cs, ch.stream, i))}
         \cup (IF RemoteOpen(cs, ch.stream, i) THEN {}
               ELSE {Outcome("IoError", <<>>, ch, cs)})

\* TcpChannel::send: one write of the packet's words, no length prefix.
\* A write to a socket the peer has closed is either taken by the kernel
\* and lost, or fails.
TcpChannelSend(ch, i, cs, packet) ==
    IF ch.stream = 0
    THEN {Outcome("ChannelNotAlive", <<>>, ch, cs)}
    ELSE IF RemoteOpen(cs, ch.stream, i)
    THEN {Outcome("Ok", <<>>, ch, Written(cs, ch.stream, i, packet))}
    ELSE {Outcome("Ok", <<>>, ch, cs), Outcome("ChannelSendError", <<>>, ch, cs)}

\* What one read into a buffer of `size` words can return when `writes`
\* are in flight.  A read returns what has reached the socket, up to the
\* size of the buffer.  In a run with arrival = "stream" any non-empty
\* prefix of the words in flight may have arrived: a write can arrive in
\* pieces and several writes can arrive together.  In a run with arrival =
\* "packets" the reader finds the oldest write, whole, and no more: the
\* timing a protocol without framing counts on.
ReadSizes(writes, size) ==
    IF arrival = "stream"
    THEN 1..Min(Len(Flatten(writes)), size)
    ELSE {Min(Len(Head(writes)), size)}

\* TcpChannel::recv: one read into a buffer of MAX_BUFFER_SIZE bytes, which
\* is the packet returned.  With nothing in flight the read blocks (no
\* outcome) while the peer holds the socket open, and returns 0 once the
\* peer has closed, which the loop turns into NoData when
\* DEFAULT_RECV_TIMEOUT has passed.
TcpChannelRecv(ch, i, cs) ==
    IF ch.stream = 0
    THEN {Outcome("ChannelNotAlive", <<>>, ch, cs)}
    ELSE LET avail == Incoming(cs, ch.stream, i)
         IN  IF Len(avail) > 0
             THEN {Outcome("Ok", SubSeq(Flatten(avail), 1, bytes), ch,
                           Consumed(cs, ch.stream, i, bytes)) :
                       bytes \in ReadSizes(avail, MAX_BUFFER_WORDS)}
             ELSE IF RemoteOpen(cs, ch.stream, i) THEN {}
             ELSE {Outcome("NoData", <<>>, ch, cs)}

\* impl Channel for LoopBackChannel
LoopBackClose(ch, cs) == {Outcome("Ok", <<>>, [ch EXCEPT !.buffer = <<>>], cs)}

LoopBackSend(ch, cs, packet) ==
    {Outcome("Ok", <<>>, [ch EXCEPT !.buffer = Append(@, packet)], cs)}

\* A queue read from the wrong end (pop_back for pop_front).
LoopBackRecvLifo(ch, cs) ==
    IF Len(ch.buffer) = 0
    THEN {Outcome("EmptyBufferError", <<>>, ch, cs)}
    ELSE {Outcome("Ok", ch.buffer[Len(ch.buffer)],
                  [ch EXCEPT !.buffer = SubSeq(@, 1, Len(@) - 1)], cs)}

LoopBackRecv(ch, cs) ==
    IF Len(ch.buffer) = 0
    THEN {Outcome("EmptyBufferError", <<>>, ch, cs)}
    ELSE {Outcome("Ok", Head(ch.buffer), [ch EXCEPT !.buffer = Tail(@)], cs)}

\* dyn Channel dispatch.
ChannelClose(ch, i, cs) ==
    IF ch.kind = "tcp" THEN TcpChannelClose(ch, i, cs) ELSE LoopBackClose(ch, cs)
ChannelSend(ch, i, cs, packet) ==
    IF ch.kind = "tcp" THEN TcpChannelSend(ch, i, cs, packet)
    ELSE LoopBackSend(ch, cs, packet)
ChannelRecv(ch, i, cs) ==
    IF ch.kind = "tcp" THEN TcpChannelRecv(ch, i, cs) ELSE LoopBackRecv(ch, cs)

\* Network::send_to / recv_from and one iteration of Network::close: they
\* index peer_channels with the party id.
send_to(i, party_id, packet) ==
    ChannelSend(peers[i][party_id + 1], i, conns, packet)
recv_from(i, party_id) == ChannelRecv(peers[i][party_id + 1], i, conns)
close_channel(i, party_id) == ChannelClose(peers[i][party_id + 1], i, conns)

\* The effect of an outcome o of a call of party i on its slot party_id.
Apply(i, party_id, o) ==
    /\ conns' = o.conns
    /\ peers' = [peers EXCEPT ![i][party_id + 1] = o.chan]

(***************************************************************************)
(* The mesh Network::create leaves when it returns Ok at every party: one  *)
(* connection per pair, dialed by the larger id (net/mod.rs lines 123-148).*)
(***************************************************************************)
PairIndex(lo, hi) == (hi * (hi - 1)) \div 2 + lo + 1

MeshConns(n) ==
    [c \in 1..((n * (n - 1)) \div 2) |->
        LET hi == CHOOSE h \in 1..(n - 1) :
                      PairIndex(0, h) <= c /\ c <= PairIndex(h - 1, h)
            lo == c - PairIndex(0, hi)
        IN  [client |-> hi, server |-> lo, up |-> <<>>, down |-> <<>>,
             client_open |-> TRUE, server_open |-> TRUE]]

MeshPeers(n) ==
    [i \in 0..(n - 1) |->
        [s \in 1..n |->
            IF s - 1 = i THEN LoopBackChannel
            ELSE TcpChannel(PairIndex(Min(i, s - 1), Max(i, s - 1)))]]

\* A party's position: the statement it is at, the loop index, a scratch
\* value (the time elapsed in connect_as_client, the socket accept returned)
\* and the error main returned with.
At(at, i) == [at |-> at, i |-> i, x |-> 0, err |-> "Ok"]
AtX(at, i, x) == [at |-> at, i |-> i, x |-> x, err |-> "Ok"]
Failed(err) == [at |-> "failed", i |-> 0, x |-> 0, err |-> err]
FailedAt(err, x) == [at |-> "failed", i |-> 0, x |-> x, err |-> err]

NotListening == [bound |-> FALSE, backlog |-> <<>>]
Listening == [bound |-> TRUE, backlog |-> <<>>]

(***************************************************************************)
(* Channel harness: two parties, 0 and 1, over an established mesh.  A run *)
(* draws the channel variant under test (the peer channel between 0 and 1, *)
(* or party 0's loop-back channel) and the payloads (small ones, or the    *)
(* one payload larger than the receive buffer, sent once); party 0 sends,  *)
(* any end receives, any end closes.  chlog records, per channel <<i, j>>  *)
(* (party i's slot j), the packets sent and the packets received, the      *)
(* channels close() was called on, the calls that returned Ok on a closed  *)
(* channel, and the last call with the queue it found.                     *)
(***************************************************************************)
BigPayload == [w \in 1..(MAX_BUFFER_WORDS + 1) |-> 90]

SmallPayloads ==
    UNION {[1..len -> {1, 2}] : len \in 1..MaxPayloadLen}

Payloads == SmallPayloads \cup {BigPayload}

Channels2 == {<<0, 1>>, <<1, 0>>, <<0, 0>>}

NoCall == [op |-> "none", ch |-> <<0, 0>>, err |-> "Ok", pre |-> <<>>]

InitHarness(variants) ==
    /\ n_parties = 2
    /\ threshold = 0
    /\ conns = MeshConns(2)
    /\ arrival \in {"stream", "packets"}
    /\ peers = MeshPeers(2)
    /\ listener = [i \in 0..1 |-> Listening]
    /\ absent = {}
    /\ pc = [i \in 0..1 |-> At("harness", 0)]
    /\ inputs = <<>>
    /\ local = <<>>
    /\ \E v \in variants, a \in {"small", "big"} :
           chlog = [variant |-> v, alphabet |-> a,
                    sent |-> [ch \in Channels2 |-> <<>>],
                    got |-> [ch \in Channels2 |-> <<>>],
                    closed |-> {},
                    late_ok |-> {},
                    last |-> NoCall]
    /\ calc = <<>>

InitChan == InitHarness({"tcp", "loop"})
InitLoop == InitHarness({"loop"})

Sends == Len(chlog.sent[<<0, 1>>]) + Len(chlog.sent[<<0, 0>>])

UnderTest(ch) == peers[ch[1]][ch[2] + 1].kind = chlog.variant

Sendable ==
    IF chlog.alphabet = "small"
    THEN IF Sends < MaxSends THEN SmallPayloads ELSE {}
    ELSE IF Sends < 1 THEN {BigPayload} ELSE {}

Logged(op, ch, o) ==
    [op |-> op, ch |-> ch, err |-> o.err, pre |-> peers[ch[1]][ch[2] + 1].buffer]

LateOk(op, ch, o) ==
    IF ch \in chlog.closed /\ o.err = "Ok" THEN {<<op, ch>>} ELSE {}

ChanSend(ch, packet) ==
    /\ ch[1] = 0
    /\ UnderTest(ch)
    /\ packet \in Sendable
    /\ \E o \in send_to(ch[1], ch[2], packet) :
        /\ Apply(ch[1], ch[2], o)
        /\ chlog' = [chlog EXCEPT
               !.sent[ch] = IF o.err = "Ok" THEN Append(@, packet) ELSE @,
               !.late_ok = @ \cup LateOk("send", ch, o),
               !.last = Logged("send", ch, o)]
    /\ UNCHANGED <<n_parties, threshold, arrival, listener, absent, pc, inputs, local, calc>>

ChanRecv(ch) ==
    /\ UnderTest(ch)
    /\ Len(chlog.got[ch]) < MaxRecvs
    /\ \E o \in recv_from(ch[1], ch[2]) :
        /\ Apply(ch[1], ch[2], o)
        /\ chlog' = [chlog EXCEPT
               !.got[ch] = IF o.err = "Ok" THEN Append(@, o.packet) ELSE @,
               !.late_ok = @ \cup LateOk("recv", ch, o),
               !.last = Logged("recv", ch, o)]
    /\ UNCHANGED <<n_parties, threshold, arrival, listener, absent, pc, inputs, local, calc>>

ChanClose(ch) ==
    /\ UnderTest(ch)
    /\ \E o \in close_channel(ch[1], ch[2]) :
        /\ Apply(ch[1], ch[2], o)
        /\ chlog' = [chlog EXCEPT
               !.closed = @ \cup {ch},
               !.last = Logged("close", ch, o)]
    /\ UNCHANGED <<n_parties, threshold, arrival, listener, absent, pc, inputs, local, calc>>

NextChan ==
    \/ \E ch \in Channels2, packet \in Payloads : ChanSend(ch, packet)
    \/ \E ch \in Channels2 : ChanRecv(ch)
    \/ \E ch \in Channels2 : ChanClose(ch)

SpecChan == InitChan /\ [][NextChan]_vars
SpecLoop == InitLoop /\ [][NextChan]_vars

(***************************************************************************)
(* main.rs lines 29-48 and Network::create (net/mod.rs lines 105-152):     *)
(* the start of a session.  A run draws the number of parties, the         *)
(* threshold given on the command line and the party, if any, that never   *)
(* starts.  Time is counted in the connect loop only: every failed attempt *)
(* is followed by a sleep of sleep_time.                                   *)
(***************************************************************************)
InitNet ==
    /\ n_parties \in 1..MaxParties
    /\ threshold \in 0..MaxThreshold
    /\ conns = <<>>
    /\ arrival = "stream"
    /\ peers = [i \in Parties |-> <<>>]
    /\ listener = [i \in Parties |-> NotListening]
    /\ absent \in {a \in SUBSET Parties : Cardinality(a) <= 1}
    /\ pc = [i \in Parties |-> At("main", 0)]
    /\ inputs = <<>>
    /\ local = <<>>
    /\ chlog = <<>>
    /\ calc = <<>>

\* The exit of the process when main returns an error: the kernel closes
\* its listener and its sockets.
ExitConns(cs, i) ==
    [c \in 1..Len(cs) |->
        [cs[c] EXCEPT !.client_open = IF cs[c].client = i THEN FALSE ELSE @,
                      !.server_open = IF cs[c].server = i THEN FALSE ELSE @]]

\* The position after iteration idx of the loop of create (line 123).
AfterIteration(idx) ==
    IF idx + 1 < n_parties THEN At("create", idx + 1) ELSE At("created", 0)

\* main up to TcpListener::bind, and the initial peers vector (lines 114-121).
Start(id) ==
    /\ pc[id].at = "main"
    /\ id \notin absent
    /\ listener' = [listener EXCEPT ![id] = Listening]
    /\ peers' = [peers EXCEPT ![id] =
           [s \in 1..n_parties |->
               IF s - 1 # id THEN TcpChannel(0) ELSE LoopBackChannel]]
    /\ pc' = [pc EXCEPT ![id] = At("create", 0)]
    /\ UNCHANGED <<n_parties, threshold, arrival, conns, absent, inputs, local, chlog, calc>>

\* A create in which every other party is dialed, whatever its id.
cmp_dial_all(i, id) == IF i = id THEN "Equal" ELSE "Less"

\* A create whose loop-back arm is an accept as well: one accept more than
\* there are peers with a higher id.
cmp_accept_self(i, id) == IF i < id THEN "Less" ELSE "Greater"

\* i.cmp(&id) (mod.rs line 124): the role of the party towards peer i.
cmp(i, id) == IF i < id THEN "Less" ELSE IF i > id THEN "Greater" ELSE "Equal"

\* elapsed > timeout (channel.rs line 121).
TimedOut(elapsed) == elapsed > ConfigTimeout

\* One turn of the loop of connect_as_client (channel.rs lines 95-135):
\* TcpStream::connect succeeds once the server listens; otherwise the call
\* fails when the time elapsed exceeds the timeout, and sleeps if not.
Connect(id) ==
    LET i == pc[id].i IN
    /\ pc[id].at = "create"
    /\ cmp(i, id) = "Less"
    /\ IF listener[i].bound
       THEN /\ conns' = Append(conns,
                   [client |-> id, server |-> i, up |-> <<>>, down |-> <<>>,
                    client_open |-> TRUE, server_open |-> TRUE])
            /\ listener' = [listener EXCEPT
                   ![i].backlog = Append(@, Len(conns) + 1)]
            /\ pc' = [pc EXCEPT ![id] = [At("write_id", i) EXCEPT
                   !.x = Len(conns) + 1]]
       ELSE IF TimedOut(pc[id].x)
       THEN /\ pc' = [pc EXCEPT ![id] = FailedAt("ConnectionRefused", pc[id].x)]
            /\ conns' = ExitConns(conns, id)
            /\ listener' = [listener EXCEPT ![id] = NotListening]
       ELSE /\ pc' = [pc EXCEPT ![id].x = @ + ConfigSleepTime]
            /\ UNCHANGED <<conns, listener>>
    /\ UNCHANGED <<n_parties, threshold, arrival, peers, absent, inputs, local, chlog, calc>>

\* stream.write_all(local_id) and the return to create, which stores the
\* channel at the index of the loop (channel.rs 100-117, mod.rs line 136).
WriteId(id) ==
    LET i == pc[id].i
        c == pc[id].x
    IN
    /\ pc[id].at = "write_id"
    /\ conns' = Written(conns, c, id, <<id>>)
    /\ peers' = [peers EXCEPT ![id][i + 1] = TcpChannel(c)]
    /\ pc' = [pc EXCEPT ![id] = AfterIteration(i)]
    /\ UNCHANGED <<n_parties, threshold, arrival, listener, absent, inputs, local, chlog, calc>>

\* listener.accept() (channel.rs line 58): blocks for the next connection.
Accept(id) ==
    /\ pc[id].at = "create"
    /\ cmp(pc[id].i, id) = "Greater"
    /\ Len(listener[id].backlog) > 0
    /\ listener' = [listener EXCEPT ![id].backlog = Tail(@)]
    /\ pc' = [pc EXCEPT ![id] = [At("read_id", pc[id].i) EXCEPT
           !.x = Head(listener[id].backlog)]]
    /\ UNCHANGED <<n_parties, threshold, arrival, conns, peers, absent, inputs, local, chlog, calc>>

\* An accepted channel stored at the index of the loop, not at the id read.
AcceptedSlotInOrder(i, remote_id) == i

\* The slot create stores an accepted channel at (mod.rs line 141).
AcceptedSlot(i, remote_id) == remote_id

\* read_exact of the peer's id (channel.rs lines 61-66) and the store of the
\* channel (mod.rs line 141).  An id outside the vector panics.
ReadId(id) ==
    LET i == pc[id].i
        c == pc[id].x
        avail == Incoming(conns, c, id)
    IN
    /\ pc[id].at = "read_id"
    /\ IF Len(avail) > 0
       THEN LET remote_id == Flatten(avail)[1]
                slot == AcceptedSlot(i, remote_id)
            IN  IF slot < n_parties
                THEN /\ conns' = Consumed(conns, c, id, 1)
                     /\ peers' = [peers EXCEPT ![id][slot + 1] = TcpChannel(c)]
                     /\ pc' = [pc EXCEPT ![id] = AfterIteration(i)]
                     /\ UNCHANGED listener
                ELSE /\ conns' = ExitConns(conns, id)
                     /\ pc' = [pc EXCEPT ![id] = Failed("panic")]
                     /\ listener' = [listener EXCEPT ![id] = NotListening]
                     /\ UNCHANGED peers
       ELSE /\ ~RemoteOpen(conns, c, id)
            /\ conns' = ExitConns(conns, id)
            /\ pc' = [pc EXCEPT ![id] = Failed("UnexpectedEof")]
            /\ listener' = [listener EXCEPT ![id] = NotListening]
            /\ UNCHANGED peers
    /\ UNCHANGED <<n_parties, threshold, arrival, absent, inputs, local, chlog, calc>>

\* The Ordering::Equal arm (mod.rs lines 143-146).
AddLoopBack(id) ==
    /\ pc[id].at = "create"
    /\ cmp(pc[id].i, id) = "Equal"
    /\ peers' = [peers EXCEPT ![id][id + 1] = LoopBackChannel]
    /\ pc' = [pc EXCEPT ![id] = AfterIteration(id)]
    /\ UNCHANGED <<n_parties, threshold, arrival, conns, listener, absent, inputs, local, chlog, calc>>

NextNet ==
    \/ \E id \in Parties : Start(id)
    \/ \E id \in Parties : Connect(id)
    \/ \E id \in Parties : WriteId(id)
    \/ \E id \in Parties : Accept(id)
    \/ \E id \in Parties : ReadId(id)
    \/ \E id \in Parties : AddLoopBack(id)

SpecNet == InitNet /\ [][NextNet]_vars

\* The steps of the process of party id.  Every party is a process of its
\* own that the operating system keeps running: a step it can take is
\* taken.
PartyStep(id) ==
    /\ id \in Parties
    /\ \/ Start(id) \/ Connect(id) \/ WriteId(id)
       \/ Accept(id) \/ ReadId(id) \/ AddLoopBack(id)

SpecNetFair ==
    SpecNet /\ \A id \in 0..(MaxParties - 1) : WF_vars(PartyStep(id))

(***************************************************************************)
(* main.rs lines 50-116 and run_multiply_protocol (mpc/mod.rs 54-101):     *)
(* the session over an established mesh, one action per blocking call.     *)
(* local[i] holds the vectors of party i's main and of the multiplication  *)
(* it is in; a vector is emptied when the code has no further use of it.   *)
(* mult_result is assigned, and reconstructed set, at main.rs line 112.    *)
(* sent and received list, in the order of the calls, the party of every   *)
(* send_to (or channel of Network::send) and recv_from that returned Ok.   *)
(***************************************************************************)
NoShare == ShamirShare(ZERO, 0)

NoLocals ==
    [own_shares |-> <<>>, shares |-> <<>>, h_own_shares |-> <<>>,
     h_shares |-> <<>>, mult_share |-> NoShare, mult_shares_remote |-> <<>>,
     mult_result |-> ZERO, reconstructed |-> FALSE,
     sent |-> <<>>, received |-> <<>>]

\* bincode::serialize of a ShamirShare: the fields in declaration order,
\* degree then value, each one word.
serialize(share) == <<share.degree, share.value>>

\* bincode::deserialize: fails on a buffer too short for the two fields and
\* takes no notice of what follows them.
CanDeserialize(packet) == Len(packet) >= 2
deserialize(packet) == ShamirShare(packet[2], packet[1])

\* main returns: the process exits and the kernel closes what it held.
Exit(id, to) ==
    /\ pc' = [pc EXCEPT ![id] = to]
    /\ listener' = [listener EXCEPT ![id] = NotListening]

\* One iteration of a loop `for (i, share) in v.iter().enumerate()` that
\* sends share i to party i; `after` is the position when the loop is over.
SendShare(id, v, after) ==
    LET i == pc[id].i IN
    \E o \in send_to(id, i, serialize(v[i + 1])) :
        IF o.err = "Ok"
        THEN /\ Apply(id, i, o)
             /\ pc' = [pc EXCEPT ![id] =
                    IF i + 1 < Len(v) THEN [@ EXCEPT !.i = i + 1] ELSE after]
             /\ UNCHANGED listener
        ELSE /\ conns' = ExitConns(o.conns, id)
             /\ peers' = peers
             /\ Exit(id, Failed(o.err))

\* The list of sends of party id after an iteration of a send loop: the
\* party sent to is added when the send has returned Ok.
Sent(id) ==
    IF pc'[id].at = "failed" THEN local[id].sent
    ELSE Append(local[id].sent, pc[id].i)

\* lines 43-59: the shares of the input, computed before the first send.
InputSend(id) ==
    /\ pc[id].at = "input_send"
    /\ \E own_shares \in
           IF pc[id].i = 0
           THEN {compute_shamir_share(From(inputs[id]), n_parties, threshold, poly) :
                     poly \in PolynomialRandom(threshold)}
           ELSE {local[id].own_shares} :
        /\ SendShare(id, own_shares, At("input_recv", 0))
        /\ local' = [local EXCEPT
               ![id].own_shares =
                   IF pc'[id].at = "input_send" THEN own_shares ELSE <<>>,
               ![id].sent = Sent(id)]
    /\ UNCHANGED <<n_parties, threshold, arrival, absent, inputs, chlog, calc>>

\* The position of a party that enters run_multiply_protocol with b =
\* shares[k]; shares[1] of a one-entry vector is out of bounds (line 76).
EnterMultiply(shares, k) ==
    IF k < Len(shares) THEN AtX("mul_send", 0, k) ELSE Failed("panic")

\* One recv_from(i) and the deserialization of the packet; `done` holds
\* when this was the last iteration.  The result is <<error, share>>.
RecvShare(id, o) ==
    IF o.err # "Ok" THEN <<o.err, NoShare>>
    ELSE IF ~CanDeserialize(o.packet) THEN <<"Deserialize", NoShare>>
    ELSE <<"Ok", deserialize(o.packet)>>

\* lines 61-69; after the last share main calls run_multiply_protocol with
\* shares[0] and shares[1] (line 74).
InputRecv(id) ==
    LET i == pc[id].i IN
    /\ pc[id].at = "input_recv"
    /\ \E o \in recv_from(id, i) :
        LET r == RecvShare(id, o)
            shares == Append(local[id].shares, r[2])
            to == IF r[1] # "Ok" THEN Failed(r[1])
                  ELSE IF i + 1 < n_parties THEN At("input_recv", i + 1)
                  ELSE EnterMultiply(shares, 1)
        IN  /\ IF to.at = "failed"
               THEN /\ conns' = ExitConns(o.conns, id)
                    /\ peers' = [peers EXCEPT ![id][i + 1] = o.chan]
                    /\ Exit(id, to)
                    /\ UNCHANGED local
               ELSE /\ Apply(id, i, o)
                    /\ pc' = [pc EXCEPT ![id] = to]
                    /\ local' = [local EXCEPT ![id].shares = shares,
                                              ![id].received = Append(@, i)]
                    /\ UNCHANGED listener
    /\ UNCHANGED <<n_parties, threshold, arrival, absent, inputs, chlog, calc>>

\* The arguments a and b of the call of run_multiply_protocol of round k
\* (main.rs lines 74-91): shares[0] and shares[1] first, then the running
\* product and the next share.
MultiplyA(id) ==
    IF pc[id].x = 1 THEN local[id].shares[1] ELSE local[id].mult_share

\* A driver that multiplies by shares[0] in every round.
MultiplyBFirst(id) == local[id].shares[1]

MultiplyB(id) == local[id].shares[pc[id].x + 1]

\* mpc/mod.rs lines 66-74: h, its fresh sharing and the sends.
MulSend(id) ==
    /\ pc[id].at = "mul_send"
    /\ \E h_own_shares \in
           IF pc[id].i = 0
           THEN LET h == share_multiply(MultiplyA(id), MultiplyB(id))
                IN  {compute_shamir_share(h.value, n_parties, threshold, poly) :
                         poly \in PolynomialRandom(threshold)}
           ELSE {local[id].h_own_shares} :
        /\ SendShare(id, h_own_shares, AtX("mul_recv", 0, pc[id].x))
        /\ local' = [local EXCEPT
               ![id].h_own_shares =
                   IF pc'[id].at = "mul_send" THEN h_own_shares ELSE <<>>,
               ![id].sent = Sent(id)]
    /\ UNCHANGED <<n_parties, threshold, arrival, absent, inputs, chlog, calc>>

\* A main that goes from the last multiplication to the receives of the
\* reveal without the send of its own share.
AfterMultiplyRecvFirst(shares, k) ==
    IF k + 1 < Len(shares) THEN AtX("mul_send", 0, k + 1) ELSE At("reveal_recv", 0)

\* A main without the loop over shares.iter().skip(2): the reveal follows
\* the first multiplication.
AfterMultiplyOneRound(shares, k) == At("reveal_send", 0)

\* The position after run_multiply_protocol has returned in round k: the
\* next share of shares.iter().skip(2), or the reveal (main.rs 82-98).
AfterMultiply(shares, k) ==
    IF k + 1 < Len(shares) THEN AtX("mul_send", 0, k + 1) ELSE At("reveal_send", 0)

\* mpc/mod.rs lines 80-100: the receives and, after the last, the
\* recombination and the return to main.
MulRecv(id) ==
    LET i == pc[id].i IN
    /\ pc[id].at = "mul_recv"
    /\ \E o \in recv_from(id, i) :
        LET r == RecvShare(id, o)
            h_shares == Append(local[id].h_shares, r[2])
            last == i + 1 >= n_parties
            to == IF r[1] # "Ok" THEN Failed(r[1])
                  ELSE IF ~last THEN AtX("mul_recv", i + 1, pc[id].x)
                  ELSE AfterMultiply(local[id].shares, pc[id].x)
        IN  /\ IF to.at = "failed"
               THEN /\ conns' = ExitConns(o.conns, id)
                    /\ peers' = [peers EXCEPT ![id][i + 1] = o.chan]
                    /\ Exit(id, to)
                    /\ UNCHANGED local
               ELSE /\ Apply(id, i, o)
                    /\ pc' = [pc EXCEPT ![id] = to]
                    /\ local' = [local EXCEPT
                           ![id].received = Append(@, i),
                           ![id].h_shares = IF last THEN <<>> ELSE h_shares,
                           ![id].mult_share =
                               IF last THEN Recombine(h_shares, n_parties) ELSE @]
                    /\ UNCHANGED listener
    /\ UNCHANGED <<n_parties, threshold, arrival, absent, inputs, chlog, calc>>

\* A reveal in which a party keeps its share to itself: the other channels
\* are sent a share of zero.
RevealSharesOwnOnly(id) ==
    [s \in 1..Len(peers[id]) |->
        IF s = id + 1 THEN local[id].mult_share ELSE NoShare]

\* What Network::send writes to each channel (net/mod.rs 155-165): the one
\* packet of the final share.
RevealShares(id) == [s \in 1..Len(peers[id]) |-> local[id].mult_share]

\* Network::send of the final share (main.rs line 98, net/mod.rs 155-165):
\* one channel of peer_channels per step.
RevealSend(id) ==
    LET i == pc[id].i IN
    /\ pc[id].at = "reveal_send"
    /\ SendShare(id, RevealShares(id), At("reveal_recv", 0))
    /\ local' = [local EXCEPT ![id].sent = Sent(id)]
    /\ UNCHANGED <<n_parties, threshold, arrival, absent, inputs, chlog, calc>>

\* main.rs lines 102-112: the final shares and the reconstruction.
RevealRecv(id) ==
    LET i == pc[id].i IN
    /\ pc[id].at = "reveal_recv"
    /\ \E o \in recv_from(id, i) :
        LET r == RecvShare(id, o)
            remote == Append(local[id].mult_shares_remote, r[2])
            last == i + 1 >= n_parties
            to == IF r[1] # "Ok" THEN Failed(r[1])
                  ELSE IF ~last THEN At("reveal_recv", i + 1)
                  ELSE At("close", 0)
        IN  /\ IF to.at = "failed"
               THEN /\ conns' = ExitConns(o.conns, id)
                    /\ peers' = [peers EXCEPT ![id][i + 1] = o.chan]
                    /\ Exit(id, to)
                    /\ UNCHANGED local
               ELSE /\ Apply(id, i, o)
                    /\ pc' = [pc EXCEPT ![id] = to]
                    /\ local' = [local EXCEPT
                           ![id].received = Append(@, i),
                           ![id].mult_shares_remote = IF last THEN <<>> ELSE remote,
                           ![id].mult_result =
                               IF last THEN reconstruct_secret(remote) ELSE @,
                           ![id].reconstructed = last]
                    /\ UNCHANGED listener
    /\ UNCHANGED <<n_parties, threshold, arrival, absent, inputs, chlog, calc>>

\* Network::close (net/mod.rs 183-191), one channel per step; after the
\* last main returns Ok.
Close(id) ==
    LET i == pc[id].i IN
    /\ pc[id].at = "close"
    /\ \E o \in close_channel(id, i) :
        /\ peers' = [peers EXCEPT ![id][i + 1] = o.chan]
        /\ IF o.err # "Ok"
           THEN /\ conns' = ExitConns(o.conns, id)
                /\ Exit(id, Failed(o.err))
           ELSE IF i + 1 < Len(peers[id])
           THEN /\ conns' = o.conns
                /\ pc' = [pc EXCEPT ![id] = At("close", i + 1)]
                /\ UNCHANGED listener
           ELSE /\ conns' = ExitConns(o.conns, id)
                /\ Exit(id, At("done", 0))
    /\ UNCHANGED <<n_parties, threshold, arrival, absent, inputs, local, chlog, calc>>

\* The inputs a session is run with: party i has i + 2, or every party has
\* the negative of that.
InputVectors(n) ==
    {[i \in 0..(n - 1) |-> i + 2], [i \in 0..(n - 1) |-> MODULUS - (i + 2)]}

\* Sessions of up to two parties are run with every arrival of the data;
\* larger ones with the reader finding one write at a time.
Arrivals(n) == IF n <= 2 THEN {"stream", "packets"} ELSE {"packets"}

InitSession ==
    /\ n_parties \in 1..MaxParties
    /\ threshold \in 0..MaxThreshold
    /\ conns = MeshConns(n_parties)
    /\ arrival \in Arrivals(n_parties)
    /\ peers = MeshPeers(n_parties)
    /\ listener = [i \in Parties |-> Listening]
    /\ absent = {}
    /\ pc = [i \in Parties |-> At("input_send", 0)]
    /\ inputs \in InputVectors(n_parties)
    /\ local = [i \in Parties |-> NoLocals]
    /\ chlog = <<>>
    /\ calc = <<>>

NextSession ==
    \/ \E id \in Parties : InputSend(id)
    \/ \E id \in Parties : InputRecv(id)
    \/ \E id \in Parties : MulSend(id)
    \/ \E id \in Parties : MulRecv(id)
    \/ \E id \in Parties : RevealSend(id)
    \/ \E id \in Parties : RevealRecv(id)
    \/ \E id \in Parties : Close(id)

SpecSession == InitSession /\ [][NextSession]_vars

(***************************************************************************)
(* One call of run_multiply_protocol by every party (mpc/mod.rs 54-101),   *)
(* entered with shares a_i and b_i of two values A and B that calc records *)
(* together with the sharings.                                             *)
(***************************************************************************)
SecretValues == (0..MaxSecret) \cup ((MODULUS - MaxSecret)..(MODULUS - 1))

InitMul ==
    /\ n_parties \in 1..MaxParties
    /\ threshold \in 0..MaxThreshold
    /\ conns = MeshConns(n_parties)
    /\ arrival \in Arrivals(n_parties)
    /\ peers = MeshPeers(n_parties)
    /\ listener = [i \in Parties |-> Listening]
    /\ absent = {}
    /\ pc = [i \in Parties |-> AtX("mul_send", 0, 1)]
    /\ inputs = [i \in Parties |-> ZERO]
    /\ chlog = <<>>
    /\ \E A \in SecretValues, B \in SecretValues :
       \E pa \in PolynomialRandom(threshold), pb \in PolynomialRandom(threshold) :
           /\ calc = [A |-> A, B |-> B,
                      a |-> compute_shamir_share(A, n_parties, threshold, pa),
                      b |-> compute_shamir_share(B, n_parties, threshold, pb)]
           /\ local = [i \in Parties |->
                  [NoLocals EXCEPT !.shares = <<calc.a[i + 1], calc.b[i + 1]>>]]

NextMul ==
    \/ \E id \in Parties : MulSend(id)
    \/ \E id \in Parties : MulRecv(id)

SpecMul == InitMul /\ [][NextMul]_vars

(***************************************************************************)
(* compute_shamir_share and reconstruct_secret (mpc/mod.rs 15-51) applied  *)
(* one after the other, as tests::secret_sharing_reconstruction_correctness*)
(* does; calc holds the secret, the shares and the result.                 *)
(***************************************************************************)
ShareCoeffs == (0..MaxShareCoef) \cup ((MODULUS - MaxShareCoef)..(MODULUS - 1))

InitShare ==
    /\ n_parties \in 1..MaxShareParties
    /\ threshold \in 0..MaxShareThreshold
    /\ conns = <<>>
    /\ arrival = "packets"
    /\ peers = <<>>
    /\ listener = <<>>
    /\ absent = {}
    /\ pc = <<>>
    /\ inputs = <<>>
    /\ local = <<>>
    /\ chlog = <<>>
    /\ calc \in [op : {"start"}, secret : Field, shares : {<<>>},
                  picked : {{}}, result : {ZERO}]

Share ==
    /\ calc.op = "start"
    /\ \E poly \in PolynomialRandomIn(threshold, ShareCoeffs) :
           calc' = [calc EXCEPT !.op = "shared", !.shares =
                       compute_shamir_share(calc.secret, n_parties, threshold, poly)]
    /\ UNCHANGED <<n_parties, threshold, conns, arrival, peers, listener, absent,
                   pc, inputs, local, chlog>>

Reconstruct ==
    /\ calc.op = "shared"
    /\ calc' = [calc EXCEPT !.op = "reconstructed",
                            !.result = reconstruct_secret(calc.shares)]
    /\ UNCHANGED <<n_parties, threshold, conns, arrival, peers, listener, absent,
                   pc, inputs, local, chlog>>

\* The shares at the indices of `picked`, in the order of the indices: what
\* a caller that selects some of the shares hands to reconstruct_secret.
RECURSIVE SelectShares(_, _, _)
SelectShares(shares, picked, idx) ==
    IF idx > Len(shares) THEN <<>>
    ELSE (IF idx \in picked THEN <<shares[idx]>> ELSE <<>>)
             \o SelectShares(shares, picked, idx + 1)

\* reconstruct_secret called with threshold + 1 of the shares.
ReconstructSelected ==
    /\ calc.op = "shared"
    /\ \E picked \in SUBSET (1..n_parties) :
           /\ Cardinality(picked) = threshold + 1
           /\ calc' = [calc EXCEPT !.op = "selected", !.picked = picked,
                  !.result = reconstruct_secret(SelectShares(calc.shares, picked, 1))]
    /\ UNCHANGED <<n_parties, threshold, conns, arrival, peers, listener, absent,
                   pc, inputs, local, chlog>>

\* The values a share that is not genuine is given.
TamperedValues == {ZERO, ONE}

\* The shares with those outside `genuine` replaced by the value v.
Tamper(shares, genuine, v) ==
    [idx \in 1..Len(shares) |->
        IF idx \in genuine THEN shares[idx] ELSE ShamirShare(v, shares[idx].degree)]

\* reconstruct_secret called with all N shares, at least threshold + 1 of
\* them as computed and the others replaced.
ReconstructTampered ==
    /\ calc.op = "shared"
    /\ \E genuine \in SUBSET (1..n_parties), v \in TamperedValues :
           LET shares == Tamper(calc.shares, genuine, v) IN
           /\ Cardinality(genuine) >= threshold + 1
           /\ shares # calc.shares
           /\ calc' = [calc EXCEPT !.op = "tampered", !.picked = genuine,
                  !.shares = shares, !.result = reconstruct_secret(shares)]
    /\ UNCHANGED <<n_parties, threshold, conns, arrival, peers, listener, absent,
                   pc, inputs, local, chlog>>

NextShare == Share \/ Reconstruct \/ ReconstructSelected \/ ReconstructTampered

SpecShare == InitShare /\ [][NextShare]_vars

(***************************************************************************)
(* The operations of the field (math/mersenne61.rs 29-94), one call each:  *)
(* calc holds the operands a, b and c and what the call returned.          *)
(***************************************************************************)
InitField ==
    /\ n_parties = 1
    /\ threshold = 0
    /\ conns = <<>>
    /\ arrival = "packets"
    /\ peers = <<>>
    /\ listener = <<>>
    /\ absent = {}
    /\ pc = <<>>
    /\ inputs = <<>>
    /\ local = <<>>
    /\ chlog = <<>>
    /\ calc \in [op : {"start"}, a : Field, b : Field, c : Field, out : {ZERO},
                  res : {[ok |-> TRUE, val |-> ZERO, err |-> ""]}]

FieldReturned(op, out) ==
    /\ calc.op = "start"
    /\ calc' = [calc EXCEPT !.op = op, !.out = out]
    /\ UNCHANGED <<n_parties, threshold, conns, arrival, peers, listener, absent,
                   pc, inputs, local, chlog>>

FieldAdd == FieldReturned("add", add(calc.a, calc.b))
FieldSubtract == FieldReturned("subtract", subtract(calc.a, calc.b))
FieldNegate == FieldReturned("negate", negate(calc.a))
FieldMultiply == FieldReturned("multiply", multiply(calc.a, calc.b))

FieldInverse ==
    /\ calc.op = "start"
    /\ calc' = [calc EXCEPT !.op = "inverse", !.res = inverse(calc.a)]
    /\ UNCHANGED <<n_parties, threshold, conns, arrival, peers, listener, absent,
                   pc, inputs, local, chlog>>

NextField ==
    \/ FieldAdd
    \/ FieldSubtract
    \/ FieldNegate
    \/ FieldMultiply
    \/ FieldInverse

SpecField == InitField /\ [][NextField]_vars

(***************************************************************************)
(* interpolate_polynomial_at (math/lagrange.rs 4-34) called as             *)
(* tests::interpolation calls it: with the values of a polynomial f at     *)
(* pairwise distinct nodes.  calc holds f, the nodes, the point x and the  *)
(* value returned.                                                         *)
(***************************************************************************)
NodeValues == (0..MaxNode) \cup {MODULUS - 1}

\* The sequences of k pairwise distinct nodes.
DistinctNodes(k) ==
    {nodes \in [1..k -> NodeValues] :
        \A i \in 1..k, j \in 1..k : i # j => nodes[i] # nodes[j]}

\* The value of the polynomial of coefficients f at x, in integer
\* arithmetic reduced modulo p.
RECURSIVE ValueAt(_, _, _)
ValueAt(f, x, i) ==
    IF i > Len(f) THEN 0 ELSE (f[i] + x * ValueAt(f, x, i + 1)) % MODULUS

InitLagrange ==
    /\ n_parties = 1
    /\ threshold \in 0..MaxShareThreshold
    /\ conns = <<>>
    /\ arrival = "packets"
    /\ peers = <<>>
    /\ listener = <<>>
    /\ absent = {}
    /\ pc = <<>>
    /\ inputs = <<>>
    /\ local = <<>>
    /\ chlog = <<>>
    /\ calc \in [op : {"start"},
                  f : PolynomialRandomIn(threshold, ShareCoeffs),
                  nodes : DistinctNodes(threshold + 1),
                  x : SecretValues, out : {ZERO}]

Interpolate ==
    /\ calc.op = "start"
    /\ calc' = [calc EXCEPT !.op = "interpolated", !.out =
           interpolate_polynomial_at(
               [i \in 1..Len(calc.nodes) |-> ValueAt(calc.f, calc.nodes[i], 1)],
               calc.nodes, calc.x)]
    /\ UNCHANGED <<n_parties, threshold, conns, arrival, peers, listener, absent,
                   pc, inputs, local, chlog>>

NextLagrange == Interpolate

SpecLagrange == InitLagrange /\ [][NextLagrange]_vars

(***************************************************************************)
(* The operations of ShamirShare (mpc/share.rs 21-69) and the sharing      *)
(* (mpc/mod.rs 15-39), one call each: calc holds the arguments s1, s2 and  *)
(* c and the share or the shares returned.                                 *)
(***************************************************************************)
InitShareOps ==
    /\ n_parties \in 1..MaxShareParties
    /\ threshold = 0
    /\ conns = <<>>
    /\ arrival = "packets"
    /\ peers = <<>>
    /\ listener = <<>>
    /\ absent = {}
    /\ pc = <<>>
    /\ inputs = <<>>
    /\ local = <<>>
    /\ chlog = <<>>
    /\ calc \in [op : {"start"},
                  s1 : [value : Field, degree : 0..MaxDegree],
                  s2 : [value : SecretValues, degree : 0..MaxDegree],
                  c : SecretValues, out : {<<>>}]

\* A call of one operation: its name and what it returned.
Returned(op, out) ==
    /\ calc.op = "start"
    /\ calc' = [calc EXCEPT !.op = op, !.out = <<out>>]
    /\ UNCHANGED <<n_parties, threshold, conns, arrival, peers, listener, absent,
                   pc, inputs, local, chlog>>

CallMultiply == Returned("multiply", share_multiply(calc.s1, calc.s2))
CallMultiplyConst == Returned("multiply_const", share_multiply_const(calc.s1, calc.c))
CallAddConst == Returned("add_const", share_add_const(calc.s1, calc.c))
CallSubtractConst == Returned("subtract_const", share_subtract_const(calc.s1, calc.c))
CallAdd == Returned("add", share_add(calc.s1, calc.s2))
CallNegate == Returned("negate", share_negate(calc.s1))
CallSubtract == Returned("subtract", share_subtract(calc.s1, calc.s2))

\* compute_shamir_share of the value of s1 with the degree of s1 as the
\* threshold.
CallComputeShares ==
    /\ calc.op = "start"
    /\ \E poly \in PolynomialRandom(calc.s1.degree) :
           calc' = [calc EXCEPT !.op = "compute_shamir_share", !.out =
               compute_shamir_share(calc.s1.value, n_parties, calc.s1.degree, poly)]
    /\ UNCHANGED <<n_parties, threshold, conns, arrival, peers, listener, absent,
                   pc, inputs, local, chlog>>

NextShareOps ==
    \/ CallMultiply
    \/ CallMultiplyConst
    \/ CallAddConst
    \/ CallSubtractConst
    \/ CallAdd
    \/ CallNegate
    \/ CallSubtract
    \/ CallComputeShares

SpecShareOps == InitShareOps /\ [][NextShareOps]_vars

(***************************************************************************)
(* compute_shamir_share (mpc/mod.rs 15-39) as the parties of a set see it: *)
(* calc holds two secrets, a set of party indices and, for each secret,    *)
(* every tuple of share values the set can receive.                        *)
(***************************************************************************)
\* Every outcome of Polynomial::random(degree, rng) over the whole field, up
\* to coefficient 0, which compute_shamir_share overwrites.
PolynomialRandomTails(degree) ==
    {<<ZERO>> \o tail : tail \in [1..degree -> Field]}

\* The share values the parties of `picked` (indices 1..N) receive, over
\* all draws of the random coefficients.
ShareViews(secret, picked) ==
    {[idx \in picked |->
         compute_shamir_share(secret, n_parties, threshold, poly)[idx].value] :
             poly \in PolynomialRandomTails(threshold)}

InitSecrecy ==
    /\ n_parties \in 1..MaxShareParties
    /\ threshold \in 0..MaxShareThreshold
    /\ conns = <<>>
    /\ arrival = "packets"
    /\ peers = <<>>
    /\ listener = <<>>
    /\ absent = {}
    /\ pc = <<>>
    /\ inputs = <<>>
    /\ local = <<>>
    /\ chlog = <<>>
    /\ calc \in [op : {"start"}, secret : SecretValues, other : SecretValues,
                  picked : {s \in SUBSET (1..n_parties) :
                               Cardinality(s) \in {threshold, threshold + 1}},
                  views : {{}}, other_views : {{}}]

Observe ==
    /\ calc.op = "start"
    /\ calc' = [calc EXCEPT !.op = "observed",
                            !.views = ShareViews(calc.secret, calc.picked),
                            !.other_views = ShareViews(calc.other, calc.picked)]
    /\ UNCHANGED <<n_parties, threshold, conns, arrival, peers, listener, absent,
                   pc, inputs, local, chlog>>

NextSecrecy == Observe

SpecSecrecy == InitSecrecy /\ [][NextSecrecy]_vars

(***************************************************************************)
(* Properties of the arithmetic of the protocol (SpecMul, SpecSession,     *)
(* SpecShare).                                                             *)
(***************************************************************************)
AllAt(at) == \A i \in Parties : pc[i].at = at

\* The shares the parties hold when run_multiply_protocol has returned.
OutputShares == [idx \in 1..n_parties |-> local[idx - 1].mult_share]

\* C1: with 2t+1 <= N, when every party has run run_multiply_protocol to
\* completion on degree-t shares of A and B, whatever the re-sharing
\* polynomials, the N output shares have degree t and reconstruct to A*B.
C1_MultiplyProtocol ==
    (AllAt("reveal_send") /\ 2 * threshold + 1 <= n_parties) =>
        /\ reconstruct_secret(OutputShares) = multiply(calc.A, calc.B)
        /\ \A idx \in 1..n_parties : OutputShares[idx].degree = threshold

\* Three parties with threshold 1 completed on sharings that are not
\* constant, of values whose product wraps around the modulus.
C1_Witness ==
    /\ AllAt("reveal_send")
    /\ n_parties = 3 /\ threshold = 1
    /\ calc.A = MODULUS - 1 /\ calc.B = MODULUS - 1
    /\ calc.a[1] # calc.a[2] /\ calc.b[1] # calc.b[2]
    /\ OutputShares[1] # OutputShares[2]

RECURSIVE ProductFrom(_, _)
ProductFrom(values, i) ==
    IF i >= n_parties THEN ONE
    ELSE multiply(From(values[i]), ProductFrom(values, i + 1))

\* C2: with N >= 2 and 2t+1 <= N, when every party has run the session to
\* its end, the value each party reconstructed is the product of the N
\* inputs.
C2_SessionResult ==
    (AllAt("done") /\ n_parties >= 2 /\ 2 * threshold + 1 <= n_parties) =>
        \A i \in Parties : local[i].mult_result = ProductFrom(inputs, 0)

\* The session of the inputs 2, 3, 4 with threshold 1 ended with 24.
C2_Witness ==
    /\ AllAt("done")
    /\ n_parties = 3 /\ threshold = 1
    /\ inputs = [i \in Parties |-> i + 2]
    /\ \A i \in Parties : local[i].mult_result = 24

\* C3: with t+1 <= N, reconstruct_secret applied to the N shares that
\* compute_shamir_share made of a secret returns the secret, whatever the
\* random coefficients.
C3_ShareRoundTrip ==
    (calc.op = "reconstructed" /\ threshold + 1 <= n_parties) =>
        calc.result = calc.secret

\* A secret shared among four parties with a polynomial of degree 2 came
\* back.
C3_Witness ==
    /\ calc.op = "reconstructed"
    /\ n_parties = 4 /\ threshold = 2
    /\ calc.secret = MODULUS - 2
    /\ calc.result = calc.secret
    /\ calc.shares[1].value # calc.shares[2].value
    /\ calc.shares[2].value # calc.shares[3].value

\* C11: with N >= 2t+1, reconstruct_secret applied to any t+1 of the N
\* shares of a secret, not only the first t+1, returns the secret.
C11_AnySelection ==
    (calc.op = "selected" /\ 2 * threshold + 1 <= n_parties) =>
        calc.result = calc.secret

\* C24: reconstruct_secret returns the secret when at least threshold + 1
\* of the N shares it is given are the ones computed from the polynomial,
\* whatever the values of the others.
C24_ToleratesTampering ==
    calc.op = "tampered" => calc.result = calc.secret

\* C12: with t < N, the share tuples a set of t parties can receive are the
\* same for any two secrets, while the tuples of t+1 parties for two
\* different secrets have nothing in common.
C12_ThresholdSecrecy ==
    (calc.op = "observed" /\ threshold < n_parties) =>
        /\ Cardinality(calc.picked) = threshold
               => calc.views = calc.other_views
        /\ (Cardinality(calc.picked) = threshold + 1 /\ calc.secret # calc.other)
               => calc.views \cap calc.other_views = {}

\* Two of four parties, threshold 2, two different secrets: every pair of
\* field values is a view of either secret.
C12_Witness ==
    /\ calc.op = "observed"
    /\ n_parties = 4 /\ threshold = 2
    /\ calc.picked = {2, 4}
    /\ calc.secret # calc.other
    /\ Cardinality(calc.views) = MODULUS * MODULUS
    /\ calc.views = calc.other_views

\* C13: subtract_const(sigma, c) returns a share of value (sigma.value - c)
\* mod p and of the degree of sigma.
C13_SubtractConst ==
    calc.op = "subtract_const" =>
        /\ calc.out[1].value = (calc.s1.value + MODULUS - calc.c) % MODULUS
        /\ calc.out[1].degree = calc.s1.degree

\* C14: add and subtract return a share of degree max(d1, d2), multiply one
\* of degree d1 + d2, multiply_const, add_const, subtract_const and negate
\* one of the degree of their input, and every share compute_shamir_share
\* returns has the threshold as its degree.
C14_DegreeAlgebra ==
    LET d1 == calc.s1.degree
        d2 == calc.s2.degree
    IN  /\ calc.op \in {"add", "subtract"}
               => calc.out[1].degree = (IF d1 >= d2 THEN d1 ELSE d2)
        /\ calc.op = "multiply" => calc.out[1].degree = d1 + d2
        /\ calc.op \in {"multiply_const", "add_const", "subtract_const", "negate"}
               => calc.out[1].degree = d1
        /\ calc.op = "compute_shamir_share"
               => /\ Len(calc.out) = n_parties
                  /\ \A idx \in 1..n_parties : calc.out[idx].degree = d1

\* Shares of degree 1 and 2 were multiplied into a share of degree 3.
C14_Witness ==
    /\ calc.op = "multiply"
    /\ calc.s1.degree = 1 /\ calc.s2.degree = 2
    /\ calc.out[1].degree = 3

\* The largest value of the code's u64 and u128.
MaxU64 == 2^WORD_BITS - 1
MaxU128 == 2^(2 * WORD_BITS) - 1

\* C15: on operands in [0, p) add, subtract, negate and multiply return
\* (a+b) mod p, (a-b) mod p, (-a) mod p and (a*b) mod p, in [0, p), with no
\* intermediate value beyond the integer type that holds it; so x+0 = x,
\* x*1 = x, x+(-x) = 0, x-x = 0, and multiplication is commutative,
\* associative and distributive over addition.
C15_FieldArithmetic ==
    LET a == calc.a
        b == calc.b
        c == calc.c
    IN  /\ calc.op # "start" => calc.out \in Field
        /\ calc.op = "add" =>
               /\ calc.out = (a + b) % MODULUS
               /\ a + b <= MaxU64
               /\ add(a, ZERO) = a
               /\ add(a, negate(a)) = ZERO
        /\ calc.op = "subtract" =>
               /\ calc.out = (a + MODULUS - b) % MODULUS
               /\ a + MODULUS - b <= MaxU64
               /\ subtract(a, a) = ZERO
        /\ calc.op = "negate" => calc.out = (MODULUS - a) % MODULUS
        /\ calc.op = "multiply" =>
               /\ calc.out = (a * b) % MODULUS
               /\ a * b <= MaxU128
               /\ multiply(a, ONE) = a
               /\ multiply(b, a) = calc.out
               /\ multiply(calc.out, c) = multiply(a, multiply(b, c))
               /\ multiply(a, add(b, c)) = add(calc.out, multiply(a, c))

\* The largest element was multiplied by itself: the product is reduced
\* to 1.
C15_Witness ==
    /\ calc.op = "multiply"
    /\ calc.a = MODULUS - 1 /\ calc.b = MODULUS - 1
    /\ calc.out = ONE

\* C16: inverse(0) returns the ZeroInverse error; for a in [1, p) the loop
\* ends and inverse(a) returns v in [0, p) with multiply(a, v) = 1.
C16_Inverse ==
    calc.op = "inverse" =>
        IF calc.a = ZERO
        THEN ~calc.res.ok /\ calc.res.err = "ZeroInverse"
        ELSE /\ calc.res.ok
             /\ calc.res.val \in Field
             /\ multiply(calc.a, calc.res.val) = ONE

\* An inverse whose coefficient came out of the loop negative.
C16_Witness ==
    /\ calc.op = "inverse"
    /\ calc.a = 2
    /\ InverseLoop(0, 1, MODULUS, calc.a) < 0
    /\ calc.res.ok /\ calc.res.val = 16

\* C17: for a polynomial f of degree <= d, d+1 pairwise distinct nodes x_i
\* and a point x, interpolate_polynomial_at([f(x_i)], [x_i], x) returns
\* f(x).
C17_InterpolationExact ==
    calc.op = "interpolated" => calc.out = ValueAt(calc.f, calc.x, 1)

\* A polynomial of degree 2 was interpolated at a point that is none of
\* its three nodes, to a value that is not its constant coefficient.
C17_Witness ==
    /\ calc.op = "interpolated"
    /\ Len(calc.f) = 3 /\ calc.f[3] # 0
    /\ \A i \in 1..3 : calc.nodes[i] # calc.x
    /\ calc.out # calc.f[1]
    /\ calc.out = ValueAt(calc.f, calc.x, 1)

\* Party i is in a recv_from call.
InRecv(i) == pc[i].at \in {"input_recv", "mul_recv", "reveal_recv"}

\* Party i is in a recv_from call that does not return: nothing is in
\* flight on the channel and the remote end holds it open.
RecvBlocked(i) == InRecv(i) /\ recv_from(i, pc[i].i) = {}

\* No step of the session is possible any more: every party has returned
\* from main or is blocked.
SessionOver ==
    \A i \in Parties : pc[i].at \in {"done", "failed"} \/ RecvBlocked(i)

\* C18: in a session of N >= 2 parties over an established mesh no party
\* is left blocked in recv, and every party finishes the reveal phase: when
\* nothing more can happen, every party has reconstructed and returned.
C18_LockStep ==
    (n_parties >= 2 /\ SessionOver) =>
        \A i \in Parties : ~RecvBlocked(i) /\ local[i].reconstructed

\* Party i has returned from a call of run_multiply_protocol.
HasMultiplied(i) ==
    \/ pc[i].at \in {"mul_send", "mul_recv"} /\ pc[i].x > 1
    \/ pc[i].at \in {"reveal_send", "reveal_recv"}

\* The shares written to the TCP connections and not yet read.
WritesInFlight ==
    UNION {{conns[c].up[k] : k \in 1..Len(conns[c].up)}
               \cup {conns[c].down[k] : k \in 1..Len(conns[c].down)} :
           c \in 1..Len(conns)}

SharesInFlight == {deserialize(w) : w \in {v \in WritesInFlight : Len(v) = 2}}

\* C19: the share run_multiply_protocol returns has degree t, so the
\* accumulated product has degree t at the start of every round, and the
\* local product of degree 2t is never sent.
C19_DegreeBounded ==
    /\ \A share \in SharesInFlight : share.degree = threshold
    /\ \A i \in Parties : HasMultiplied(i) => local[i].mult_share.degree = threshold
    /\ \A i \in Parties : pc[i].at = "mul_send" =>
           MultiplyA(i).degree = threshold /\ MultiplyB(i).degree = threshold

\* Party i is in a receive loop and has not yet called recv_from(i).
BeforeOwnRecv(i) == InRecv(i) /\ pc[i].i <= i

\* C23: in every phase a party has sent to its loop-back channel before it
\* receives from it: the queue holds a packet whenever recv_from(own id) is
\* still to come in the receive loop the party is in, and no party fails
\* with EmptyBufferError.
C23_LoopbackNeverEmpty ==
    \A i \in Parties :
        /\ pc[i].err # "EmptyBufferError"
        /\ BeforeOwnRecv(i) => Len(peers[i][i + 1].buffer) > 0

\* Party 1 of three has taken its own share from the loop-back queue in the
\* second multiplication.
C23_Witness ==
    /\ n_parties = 3
    /\ pc[1].at = "mul_recv" /\ pc[1].x = 2 /\ pc[1].i = 2
    /\ Len(local[1].h_shares) = 2
    /\ peers[1][2].buffer = <<>>

\* C25: the parties agree on the revealed value.  The final shares a party
\* has received in the reveal are the shares their senders hold, in the
\* order of the party ids, and when every party has reconstructed, all
\* have the same result, whatever N and t are.
C25_Agreement ==
    /\ \A i \in Parties :
           pc[i].at = "reveal_recv" =>
               \A k \in 1..Len(local[i].mult_shares_remote) :
                   local[i].mult_shares_remote[k] = local[k - 1].mult_share
    /\ (\A i \in Parties : local[i].reconstructed) =>
           \A i \in Parties, j \in Parties :
               local[i].mult_result = local[j].mult_result

\* Two parties with threshold 1 have both reconstructed, and the value they
\* agree on is not the product of the inputs.
C25_Witness ==
    /\ n_parties = 2 /\ threshold = 1
    /\ \A i \in Parties : local[i].reconstructed
    /\ local[0].mult_result = local[1].mult_result
    /\ local[0].mult_result # ProductFrom(inputs, 0)

\* The number of entries of a list of parties that are party j.
Count(list, j) == Cardinality({k \in 1..Len(list) : list[k] = j})

\* The writes to party i that it has not read, on its TCP connections.
Unread(i) ==
    {c \in 1..Len(conns) :
        \/ conns[c].server = i /\ conns[c].up # <<>>
        \/ conns[c].client = i /\ conns[c].down # <<>>}

\* C27: a party that has reached Network::close has sent N+1 packets to
\* every party and received N+1 packets from every party, itself included,
\* and has nothing left to read: its loop-back queue is empty and so are
\* its ends of the connections; when all parties have reached it, no
\* connection holds a packet.
C27_Balanced ==
    /\ \A i \in Parties :
           local[i].reconstructed =>
               /\ \A j \in Parties :
                      /\ Count(local[i].sent, j) = n_parties + 1
                      /\ Count(local[i].received, j) = n_parties + 1
               /\ peers[i][i + 1].buffer = <<>>
               /\ Unread(i) = {}
    /\ (\A i \in Parties : local[i].reconstructed) =>
           \A c \in 1..Len(conns) : conns[c].up = <<>> /\ conns[c].down = <<>>

\* Three parties have all reached Network::close, each with four packets
\* sent to party 2 and four received from party 0.
C27_Witness ==
    /\ n_parties = 3
    /\ \A i \in Parties :
           /\ pc[i].at \in {"close", "done"}
           /\ Count(local[i].sent, 2) = 4
           /\ Count(local[i].received, 0) = 4

\* Network::close has returned at party i: main calls it after the
\* reconstruction and returns right after it, with Ok or with its error.
CloseReturned(i) == local[i].reconstructed /\ pc[i].at \in {"done", "failed"}

\* The TCP channels of party i on which close has not set stream to None.
StreamsHeld(i) ==
    {j \in 1..Len(peers[i]) : peers[i][j].kind = "tcp" /\ peers[i][j].stream # 0}

\* C20: when Network::close has returned, with Ok or with the error of some
\* channel, close has been performed on every channel: beyond the channel
\* whose close failed, none still holds its stream.
C20_CloseAll ==
    \A i \in Parties : CloseReturned(i) => Cardinality(StreamsHeld(i)) <= 1

(***************************************************************************)
(* Properties of the channels (SpecChan, SpecLoop).                        *)
(***************************************************************************)
TcpSent == chlog.sent[<<0, 1>>]
TcpGot == chlog.got[<<1, 0>>]
LoopSent == chlog.sent[<<0, 0>>]
LoopGot == chlog.got[<<0, 0>>]

\* C4: one send of a payload on the peer channel followed by one recv at the
\* other end returns the payload, whole and unchanged.
C4_FramingRoundTrip ==
    (chlog.variant = "tcp" /\ Len(TcpSent) = 1 /\ Len(TcpGot) >= 1)
        => TcpGot[1] = TcpSent[1]

\* C5: on the peer channel the j-th recv returns the j-th packet sent, one
\* packet per recv, whatever the interleaving of the sends and the recvs.
C5_PacketBoundaries ==
    chlog.variant = "tcp" =>
        \A j \in 1..Len(TcpGot) : j <= Len(TcpSent) /\ TcpGot[j] = TcpSent[j]

\* C7: after close() on a channel of either variant, no send and no recv on
\* that channel returns Ok.
C7_ClosedIsTerminal == chlog.late_ok = {}

\* C21: once the mesh is up no recv on a peer channel fails because time
\* has elapsed.  NoData is the error recv returns when its reads have
\* returned no bytes for longer than DEFAULT_RECV_TIMEOUT, so no call of recv
\* on a TCP channel returns NoData.
C21_NoRecvTimeout ==
    ~(/\ chlog.last.op = "recv"
      /\ peers[chlog.last.ch[1]][chlog.last.ch[2] + 1].kind = "tcp"
      /\ chlog.last.err = "NoData")

\* C8: while close is not called on it, the loop-back channel is a FIFO
\* queue: the k-th successful recv returns the k-th packet sent, the queue
\* holds the packets sent and not yet received, and a recv that finds the
\* queue empty returns EmptyBufferError and leaves it empty.
C8_LoopbackFifo ==
    (chlog.variant = "loop" /\ <<0, 0>> \notin chlog.closed) =>
        /\ Len(LoopGot) <= Len(LoopSent)
        /\ \A k \in 1..Len(LoopGot) : LoopGot[k] = LoopSent[k]
        /\ peers[0][1].buffer = SubSeq(LoopSent, Len(LoopGot) + 1, Len(LoopSent))
        /\ (chlog.last.op = "recv" /\ chlog.last.pre = <<>>)
               => (chlog.last.err = "EmptyBufferError" /\ peers[0][1].buffer = <<>>)
        /\ (chlog.last.op = "recv" /\ chlog.last.pre # <<>>)
               => chlog.last.err = "Ok"

\* Two different packets were queued together and both came back.
C8_Witness ==
    /\ chlog.variant = "loop"
    /\ <<0, 0>> \notin chlog.closed
    /\ Len(LoopGot) = 2
    /\ LoopSent[1] # LoopSent[2]
    /\ chlog.last.op = "recv"
    /\ Len(chlog.last.pre) = 1

(***************************************************************************)
(* Properties of the start of a session (SpecNet).                         *)
(***************************************************************************)
Created(i) == pc[i].at = "created"

\* The party at the other end of connection c, seen from party i.
RemoteEnd(c, i) == IF conns[c].client = i THEN conns[c].server ELSE conns[c].client

\* C6: when create has returned Ok at party i, every slot j # i of its
\* channel vector holds a connected channel whose remote end is party j,
\* and slot i holds the loop-back channel.
C6_FullMesh ==
    \A i \in Parties :
        Created(i) =>
            \A j \in Parties :
                LET ch == peers[i][j + 1] IN
                IF j = i THEN ch.kind = "loop"
                ELSE /\ ch.kind = "tcp"
                     /\ ch.stream # 0
                     /\ i \in {conns[ch.stream].client, conns[ch.stream].server}
                     /\ RemoteEnd(ch.stream, i) = j

\* Party 0 of three has its mesh, and accepted party 2 before party 1.
C6_Witness ==
    /\ n_parties = 3
    /\ Created(0)
    /\ \E c \in 1..Len(conns), d \in 1..Len(conns) :
           /\ c < d
           /\ conns[c].server = 0 /\ conns[c].client = 2
           /\ conns[d].server = 0 /\ conns[d].client = 1
           /\ peers[0][3].stream = c

\* The connections party i has dialed, and those it has taken from its
\* listener with accept.
Dialed(i) == {c \in 1..Len(conns) : conns[c].client = i}
Accepted(i) ==
    {c \in 1..Len(conns) :
        /\ conns[c].server = i
        /\ \A k \in 1..Len(listener[i].backlog) : listener[i].backlog[k] # c}

\* C22: a party dials only peers with a lower id, each at most once, and
\* announces its own id on the connection; when its create has returned it
\* has dialed exactly the peers below it and accepted exactly N-1-i
\* connections; when every create has returned, each pair of parties is
\* joined by exactly one connection, dialed by the larger id.
C22_RoleAssignment ==
    /\ \A c \in 1..Len(conns) :
           /\ conns[c].server < conns[c].client
           /\ conns[c].up \in {<<>>, <<<<conns[c].client>>>>}
           /\ \A d \in 1..Len(conns) :
                  (conns[d].client = conns[c].client
                   /\ conns[d].server = conns[c].server) => d = c
    /\ \A i \in Parties :
           Created(i) =>
               /\ {conns[c].server : c \in Dialed(i)} = 0..(i - 1)
               /\ Cardinality(Accepted(i)) = n_parties - 1 - i
    /\ (\A i \in Parties : Created(i)) =>
           /\ Len(conns) = (n_parties * (n_parties - 1)) \div 2
           /\ \A lo \in Parties, hi \in Parties :
                  lo < hi =>
                      Cardinality({c \in 1..Len(conns) :
                          {conns[c].client, conns[c].server} = {lo, hi}}) = 1

\* Three parties have all returned from create, over three connections.
C22_Witness ==
    /\ n_parties = 3
    /\ \A i \in Parties : Created(i)
    /\ Cardinality(Accepted(0)) = 2
    /\ Cardinality(Dialed(2)) = 2

\* No connect_as_client has returned the error of its last attempt.
NoConnectTimeout == \A i \in Parties : pc[i].err # "ConnectionRefused"

AllCreated == \A i \in Parties : Created(i)

\* C26: when every party starts and no connect runs out of time before the
\* peer it dials has bound its listener, every party's create eventually
\* returns Ok, in whatever order the parties bind, connect, write their ids
\* and accept.
C26_MeshTerminates ==
    (absent = {} /\ []NoConnectTimeout) => <>AllCreated

\* Three parties that all started have their mesh, party 2 having reached
\* party 0 before party 1 did.
C26_Witness ==
    /\ n_parties = 3 /\ absent = {}
    /\ AllCreated
    /\ Len(conns) = 3
    /\ conns[1].client = 2 /\ conns[2].client = 1

\* No step of the start of the session is possible any more.
Settled == ~ENABLED NextNet

\* C9: when one party never starts, create returns an error at every other
\* party: none is left waiting once nothing more can happen.
C9_CreateTimesOut ==
    (absent # {} /\ Settled) =>
        \A i \in Parties \ absent : pc[i].at = "failed"

\* C10: a threshold with 2t+1 > N is rejected before any network I/O: no
\* listener is bound and no connection is made.
C10_ThresholdRejected ==
    ~(2 * threshold + 1 <= n_parties) =>
        /\ \A i \in Parties : ~listener[i].bound /\ pc[i].at \in {"main", "failed"}
        /\ conns = <<>>

Init == InitChan
Next == NextChan
Spec == SpecChan
====
